---- MODULE Spec2Model ----
(***************************************************************************)
(* ents: typed entity / edge graph over two storage backends.              *)
(*                                                                         *)
(* The model follows the two backends of the repository                    *)
(*   ents-heed   (ordered byte-key store, src/ents-heed/src/lib.rs)        *)
(*   ents-sqlite (relational store,       src/ents-sqlite/src/lib.rs)      *)
(* and the shared reconciliation code of src/ents/src/edge_provider.rs,    *)
(* with the entity types of the repository's tests as the entity types.    *)
(***************************************************************************)
EXTENDS Integers, Sequences, FiniteSets, TLC

(***************************************************************************)
(* Bounds of the model.                                                    *)
(***************************************************************************)
\* number of entity ids the allocators hand out
MaxId == 2
\* largest value of the caller-visible payload field (name / value / title)
MaxValue == 1
\* longest tag_ids list of a Post
MaxTags == 1
\* largest id a tag_ids list names
MaxTagId == 1
\* largest reading of the wall clock
MaxClock == 2
\* number of in-memory entity handles the callers hold
NumHandles == 2
\* number of get, create, update and delete calls in a run
MaxOps == 4
\* number of transactions in a run
MaxTxns == 2

(***************************************************************************)
(* Program constants.                                                      *)
(***************************************************************************)
\* width of a big-endian id in an edge key
IdBytes == 8
\* the version the entity types of ents-heed/tests/txn.rs store in mark_updated
MarkConst == 12345

\* an absent entity (Option::None)
None == [type |-> "None", id |-> 0]

Backends == {"heed", "sqlite"}

Ids == 1..MaxId
Values == 0..MaxValue
Handles == 1..NumHandles
\* SystemTime::now() in microseconds: not monotonic, and two readings may agree
Clocks == 1..MaxClock

\* sort keys, as the bytes of the literals in the source
SK_author == <<97, 117, 116, 104, 111, 114>>
SK_tag == <<116, 97, 103>>
SK_lives_in == <<108, 105, 118, 101, 115, 95, 105, 110>>
SK_unique_email == <<117, 110, 105, 113, 117, 101, 95, 101, 109, 97, 105, 108>>

(***************************************************************************)
(* Entities.  One record shape stands for the entity structs of the tests: *)
(*   value : a field no EdgeProvider reads (name, value, title, username)  *)
(*   link  : author_id (Post), lives_in_link (TestPerson),                 *)
(*           email (UserWithUniqueEmail); 0 where the type has none        *)
(*   tags  : tag_ids (Post); empty where the type has none                 *)
(***************************************************************************)
EntTypes == {"TestEntity", "TestPerson", "Post", "UserWithUniqueEmail"}

RECURSIVE SeqsUpTo(_, _)
SeqsUpTo(S, n) ==
  IF n = 0 THEN {<<>>}
  ELSE LET shorter == SeqsUpTo(S, n - 1)
       IN  shorter \cup {Append(s, x) : s \in {t \in shorter : Len(t) = n - 1}, x \in S}

TagLists == SeqsUpTo(1..MaxTagId, MaxTags)

\* the values a constructor or a mutator gives a field of each entity type
ValuesOf(type) == IF type = "TestEntity" THEN Values ELSE {0}
LinksOf(type) == IF type = "TestEntity" THEN {0} ELSE Ids
TagsOf(type) == IF type = "Post" THEN TagLists ELSE {<<>>}

\* the clock readings mark_updated can take: the types of tests/txn.rs read none
ClocksOf(type) == IF type = "TestPerson" THEN {0} ELSE Clocks

\* the outcomes of the find_edges call inside check(): only UniqueEmailDraft
\* makes one
FindOutcomes(type) == IF type = "UserWithUniqueEmail" THEN BOOLEAN ELSE {TRUE}

\* the last_updated a constructor gives: 0, or what the caller hands the
\* builder of TestPerson
VersionsOf(type) == IF type = "TestPerson" THEN {0, MarkConst} ELSE {0}

\* Post::new, TestEntity::new, UserWithUniqueEmail::new and the builders of
\* tests/txn.rs: id 0
NewEnt(type, value, link, tags, last_updated) ==
  [type |-> type, id |-> 0, last_updated |-> last_updated,
   value |-> value, link |-> link, tags |-> tags]

set_id(ent, id) == [ent EXCEPT !.id = id]

\* Ent::mark_updated: the entity types of ents-test-suite store the wall clock
\* in microseconds, those of ents-heed/tests/txn.rs a fixed number
mark_updated(ent, clock) ==
  IF ent.type = "TestPerson"
  THEN [ent EXCEPT !.last_updated = MarkConst]
  ELSE [ent EXCEPT !.last_updated = clock]

(***************************************************************************)
(* Edge drafts and providers.                                              *)
(***************************************************************************)
EdgeValue(source, sort_key, dest) ==
  [source |-> source, sort_key |-> sort_key, dest |-> dest]

\* EdgeProvider::draft of each entity type
draft(ent) ==
  CASE ent.type = "TestEntity" -> [kind |-> "NullEdgeDraft"]
    [] ent.type = "TestPerson" ->
         [kind |-> "TestPersonEdgeDraft", person_id |-> ent.id, city_id |-> ent.link]
    [] ent.type = "Post" ->
         [kind |-> "Pair",
          t1 |-> [kind |-> "AuthorEdgeDraft", post_id |-> ent.id, author_id |-> ent.link],
          t2 |-> [kind |-> "TagsEdgeDraft", post_id |-> ent.id, tag_ids |-> ent.tags]]
    [] ent.type = "UserWithUniqueEmail" ->
         [kind |-> "UniqueEmailDraft", user_id |-> ent.id, email |-> ent.link]

Ok(v) == [ok |-> TRUE, val |-> v]
Err == [ok |-> FALSE, val |-> <<>>]

check_leaf_null_gives_edge(d, find_ok) ==
  CASE d.kind = "NullEdgeDraft" -> Ok(<<EdgeValue(1, <<97>>, 1)>>)
    [] d.kind = "TestPersonEdgeDraft" ->
         Ok(<<EdgeValue(d.person_id, SK_lives_in, d.city_id)>>)
    [] d.kind = "AuthorEdgeDraft" ->
         Ok(<<EdgeValue(d.post_id, SK_author, d.author_id)>>)
    [] d.kind = "TagsEdgeDraft" ->
         Ok([i \in 1..Len(d.tag_ids) |-> EdgeValue(d.post_id, SK_tag, d.tag_ids[i])])
    [] d.kind = "UniqueEmailDraft" ->
         IF find_ok THEN Ok(<<EdgeValue(0, SK_unique_email, d.user_id)>>) ELSE Err

\* EdgeDraft::check of the leaf drafts.  find_ok is the outcome of the
\* find_edges call UniqueEmailDraft::check makes: its error is propagated by `?`
check_leaf(d, find_ok) ==
  CASE d.kind = "NullEdgeDraft" -> Ok(<<>>)
    [] d.kind = "TestPersonEdgeDraft" ->
         Ok(<<EdgeValue(d.person_id, SK_lives_in, d.city_id)>>)
    [] d.kind = "AuthorEdgeDraft" ->
         Ok(<<EdgeValue(d.post_id, SK_author, d.author_id)>>)
    [] d.kind = "TagsEdgeDraft" ->
         Ok([i \in 1..Len(d.tag_ids) |-> EdgeValue(d.post_id, SK_tag, d.tag_ids[i])])
    [] d.kind = "UniqueEmailDraft" ->
         IF find_ok THEN Ok(<<EdgeValue(0, SK_unique_email, d.user_id)>>) ELSE Err

check_pair_second_first(t1, t2, f1, f2) ==
  LET e2 == check_leaf(t2, f2)
  IN  IF ~e2.ok THEN [r |-> Err, checks |-> 1]
      ELSE LET e1 == check_leaf(t1, f1)
           IN  IF ~e1.ok THEN [r |-> Err, checks |-> 2]
               ELSE [r |-> Ok(e2.val \o e1.val), checks |-> 2]

\* EdgeDraft::check of the pair draft (T1, T2): `t1.check(txn)?`, then
\* `edges.extend(t2.check(txn)?)`.  f1 and f2 are the outcomes of the
\* find_edges calls of the two components, checks the number of component
\* checks made
check_pair(t1, t2, f1, f2) ==
  LET e1 == check_leaf(t1, f1)
  IN  IF ~e1.ok THEN [r |-> Err, checks |-> 1]
      ELSE LET e2 == check_leaf(t2, f2)
           IN  IF ~e2.ok THEN [r |-> Err, checks |-> 2]
               ELSE [r |-> Ok(e1.val \o e2.val), checks |-> 2]

\* EdgeDraft::check, with the pair draft (T1, T2): T1's edges, then T2's
check(d, find_ok) ==
  IF d.kind = "Pair"
  THEN check_pair(d.t1, d.t2, find_ok, find_ok).r
  ELSE check_leaf(d, find_ok)

Range(s) == {s[i] : i \in 1..Len(s)}

(***************************************************************************)
(* Edge key codec of the ordered-key backend.                              *)
(***************************************************************************)
\* Id = u64.  The integers of the model checker are 32 bits wide, so the model
\* handles the u64 values at the two ends of the range: the values below
\* U64Wrap / 2 stand for themselves, and the value 2^64 - k at the top of the
\* range is written U64Wrap - k.  The order of the model's integers is the
\* order of the u64 values they stand for, and U64Wrap stands for 2^64.
U64Wrap == 1073741824

U64Max == U64Wrap - 1

\* `n as i64`: the same 64 bits read as two's complement
as_i64(n) == IF n >= U64Wrap \div 2 THEN n - U64Wrap ELSE n

\* `m as Id` of an i64
as_u64(m) == IF m < 0 THEN m + U64Wrap ELSE m

\* <u64 as ToSql>::to_sql of the relational backend's driver: i64::try_from,
\* an error for a value above i64::MAX
to_sql_ok(n) == n < U64Wrap \div 2

RECURSIVE Shr8(_, _)
Shr8(n, k) == IF k = 0 THEN n ELSE Shr8(n \div 256, k - 1)

\* BigEndian::write_u64: the bytes of a value at the top of the range are those
\* of its two's complement reading
write_u64(n) == [i \in 1..IdBytes |-> Shr8(as_i64(n), IdBytes - i) % 256]

RECURSIVE read_acc(_, _, _)
read_acc(bytes, i, acc) ==
  IF i > Len(bytes) THEN acc ELSE read_acc(bytes, i + 1, acc * 256 + bytes[i])

\* BigEndian::read_u64
read_u64(bytes) ==
  as_u64(read_acc(bytes, 2, IF bytes[1] >= 128 THEN bytes[1] - 256 ELSE bytes[1]))

make_edge_key_dest_low_byte(source, sort_key, dest) ==
  write_u64(source) \o sort_key \o write_u64(dest % 256)

make_edge_key(source, sort_key, dest) ==
  write_u64(source) \o sort_key \o write_u64(dest)

parse_edge_key_dest_after_source(key) ==
  [source |-> read_u64(SubSeq(key, 1, IdBytes)),
   sort_key |-> SubSeq(key, IdBytes + 1, Len(key) - IdBytes),
   dest |-> read_u64(SubSeq(key, IdBytes + 1, IdBytes + IdBytes))]

parse_edge_key(key) ==
  [source |-> read_u64(SubSeq(key, 1, IdBytes)),
   sort_key |-> SubSeq(key, IdBytes + 1, Len(key) - IdBytes),
   dest |-> read_u64(SubSeq(key, Len(key) - IdBytes + 1, Len(key)))]

(***************************************************************************)
(* Stores.  A store is [ents, edges]: ents maps an id to the stored JSON   *)
(* payload (the entity as serialized, its own id field included) or None.  *)
(* The ordered-key backend keeps the edges as a set of composite keys, the *)
(* relational backend as a set of rows (source, type, dest).               *)
(***************************************************************************)
EmptyStore == [ents |-> [i \in Ids |-> None], edges |-> {}]

\* serde_json::to_string / from_str of an entity: every field is kept
to_json(ent) == ent
from_json(data) == data

\* params![source as i64, sort_key, dest as i64]
EdgeRow(e) ==
  [source |-> as_i64(e.source), type |-> e.sort_key, dest |-> as_i64(e.dest)]

\* the edges of a store as (source, sort_key, dest) triples
LiveEdges(b, st) ==
  IF b = "heed"
  THEN {parse_edge_key(k) : k \in st.edges}
  ELSE {EdgeValue(as_u64(r.source), r.type, as_u64(r.dest)) : r \in st.edges}

(***************************************************************************)
(* Ordered-key backend (ents-heed).                                        *)
(***************************************************************************)
\* HeedEnv::next_id: the snowflake generator, a strictly increasing sequence
Heed_next_id(gen) == gen + 1

Heed_insert(st, id, ent) == [st EXCEPT !.ents[id] = to_json(ent)]

Heed_get_payload_id(st, id) ==
  IF id \notin Ids \/ st.ents[id] = None THEN None
  ELSE from_json(st.ents[id])

Heed_get(st, id) ==
  IF id \notin Ids \/ st.ents[id] = None THEN None
  ELSE set_id(from_json(st.ents[id]), id)

Heed_update_internal_write_first(st, id, ent, expected) ==
  LET current == Heed_get(st, id)
  IN  [updated |-> current # None /\ current.last_updated = expected,
       st |-> [st EXCEPT !.ents[id] = to_json(ent)]]

Heed_update_internal(st, id, ent, expected) ==
  LET current == Heed_get(st, id)
  IN  IF current = None THEN [updated |-> FALSE, st |-> st]
      ELSE IF current.last_updated # expected THEN [updated |-> FALSE, st |-> st]
      ELSE [updated |-> TRUE, st |-> [st EXCEPT !.ents[id] = to_json(ent)]]

Heed_delete_edge(st, e) ==
  [st EXCEPT !.edges = @ \ {make_edge_key(e.source, e.sort_key, e.dest)}]

\* put: writing a key that is present leaves one key
Heed_create_edge(st, e) ==
  [ok |-> TRUE,
   st |-> [st EXCEPT !.edges = @ \cup {make_edge_key(e.source, e.sort_key, e.dest)}]]

Heed_delete_by_source(st, id) ==
  LET to_delete == {k \in st.edges : parse_edge_key(k).source = id}
  IN  [ents |-> [i \in Ids |-> IF i = id THEN None ELSE st.ents[i]], edges |-> st.edges \ to_delete]

Heed_delete(st, id) ==
  LET to_delete == {k \in st.edges : parse_edge_key(k).dest = id}
  IN  [ents |-> [i \in Ids |-> IF i = id THEN None ELSE st.ents[i]], edges |-> st.edges \ to_delete]

(***************************************************************************)
(* Relational backend (ents-sqlite), with the schema of its tests:         *)
(*   entities(id INTEGER PRIMARY KEY, type, data)                          *)
(*   edges(source, type, dest, PRIMARY KEY (source, type, dest))           *)
(***************************************************************************)
StoredIds(st) == {i \in Ids : st.ents[i] # None}

Max(S) == CHOOSE x \in S : \A y \in S : y <= x

\* last_insert_rowid of INSERT INTO entities (type, data): with INTEGER PRIMARY
\* KEY the new rowid is one more than the largest rowid in the table
Sqlite_rowid(st) == IF StoredIds(st) = {} THEN 1 ELSE Max(StoredIds(st)) + 1

Sqlite_insert(st, id, ent) == [st EXCEPT !.ents[id] = to_json(ent)]

Sqlite_get(st, id) ==
  IF id \notin Ids \/ st.ents[id] = None THEN None
  ELSE set_id(from_json(st.ents[id]), id)

\* UPDATE entities SET data .. WHERE id = ?3 AND JSON_EXTRACT(data,
\* '$.last_updated') = ?4: rows_affected > 0
Sqlite_update(st, id, ent, expected) ==
  LET rows == {i \in StoredIds(st) : i = id /\ st.ents[i].last_updated = expected}
  IN  [updated |-> rows # {},
       st |-> [st EXCEPT !.ents = [i \in Ids |-> IF i \in rows THEN to_json(ent) ELSE @[i]]]]

\* DELETE FROM edges WHERE source = ?1 AND type = ?2 AND dest = ?3
Sqlite_delete_edge(st, e) == [st EXCEPT !.edges = @ \ {EdgeRow(e)}]

\* INSERT INTO edges: a row with the same primary key is a constraint error
Sqlite_create_edge(st, e) ==
  IF EdgeRow(e) \in st.edges THEN [ok |-> FALSE, st |-> st]
  ELSE [ok |-> TRUE, st |-> [st EXCEPT !.edges = @ \cup {EdgeRow(e)}]]

Sqlite_delete_every_entity(st, id) ==
  [ents |-> [i \in Ids |-> None],
   edges |-> {r \in st.edges : r.dest # id}]

Sqlite_delete_both_ends(st, id) ==
  IF ~to_sql_ok(id) THEN st
  ELSE [ents |-> [i \in Ids |-> IF i = id THEN None ELSE st.ents[i]],
        edges |-> {r \in st.edges : r.dest # id /\ r.source # id}]

\* DELETE FROM edges WHERE dest = ?1; DELETE FROM entities WHERE id = ?1
\* params![id] binds the u64 itself, and the statement fails when it cannot
Sqlite_delete(st, id) ==
  IF ~to_sql_ok(id) THEN st
  ELSE [ents |-> [i \in Ids |-> IF i = id THEN None ELSE st.ents[i]],
        edges |-> {r \in st.edges : r.dest # id}]

(***************************************************************************)
(* The Transactional operations, by backend.                               *)
(***************************************************************************)
get(b, st, id) == IF b = "heed" THEN Heed_get(st, id) ELSE Sqlite_get(st, id)

create_edge(b, st, e) ==
  IF b = "heed" THEN Heed_create_edge(st, e) ELSE Sqlite_create_edge(st, e)

delete_edge(b, st, e) ==
  IF b = "heed" THEN Heed_delete_edge(st, e) ELSE Sqlite_delete_edge(st, e)

update_internal(b, st, id, ent, expected) ==
  IF b = "heed" THEN Heed_update_internal(st, id, ent, expected)
  ELSE Sqlite_update(st, id, ent, expected)

delete(b, st, id) == IF b = "heed" THEN Heed_delete(st, id) ELSE Sqlite_delete(st, id)

\* whether delete returns Ok
delete_ok(b, id) == b = "heed" \/ to_sql_ok(id)

\* `for edge in edges { txn.create_edge(edge)?; }`: stops at the first error.
\* n counts the edges inserted
RECURSIVE create_edges(_, _, _, _, _)
create_edges(b, st, edges, i, n) ==
  IF i > Len(edges) THEN [ok |-> TRUE, st |-> st, n |-> n]
  ELSE LET r == create_edge(b, st, edges[i])
       IN  IF ~r.ok THEN [ok |-> FALSE, st |-> st, n |-> n]
           ELSE create_edges(b, r.st, edges, i + 1, n + 1)

\* `for edge in edge0 { delete_edge(..)?; }`
RECURSIVE delete_edges(_, _, _, _)
delete_edges(b, st, edges, i) ==
  IF i > Len(edges) THEN st
  ELSE delete_edges(b, delete_edge(b, st, edges[i]), edges, i + 1)

\* EntWithEdges::setup_edges: draft, check, then create_edge on every edge
setup_edges(b, st, ent, find_ok) ==
  LET edges == check(draft(ent), find_ok)
  IN  IF ~edges.ok THEN [ok |-> FALSE, st |-> st, n |-> 0]
      ELSE create_edges(b, st, edges.val, 1, 0)

insert(b, st, id, ent) ==
  IF b = "heed" THEN Heed_insert(st, id, ent) ELSE Sqlite_insert(st, id, ent)

\* the id the next insert stores under
next_id(b, st, gen) == IF b = "heed" THEN Heed_next_id(gen) ELSE Sqlite_rowid(st)

create_edges_of_unset_id(b, st, gen, ent, find_ok) ==
  LET id == next_id(b, st, gen)
      r == setup_edges(b, insert(b, st, id, ent), ent, find_ok)
  IN  [res |-> IF r.ok THEN "ok" ELSE "err", id |-> id, st |-> r.st,
       ent |-> set_id(ent, id), ins |-> r.n]

create_rolling_back(b, st, gen, ent, find_ok) ==
  LET id == next_id(b, st, gen)
      st1 == insert(b, st, id, ent)
      ent1 == set_id(ent, id)
      r == setup_edges(b, st1, ent1, find_ok)
  IN  [res |-> IF r.ok THEN "ok" ELSE "err", id |-> id,
       st |-> IF r.ok THEN r.st ELSE st,
       ent |-> ent1, ins |-> r.n]

\* Transactional::create: insert, set_id, setup_edges
create(b, st, gen, ent, find_ok) ==
  LET id == next_id(b, st, gen)
      st1 == insert(b, st, id, ent)
      ent1 == set_id(ent, id)
      r == setup_edges(b, st1, ent1, find_ok)
  IN  [res |-> IF r.ok THEN "ok" ELSE "err", id |-> id, st |-> r.st,
       ent |-> ent1, ins |-> r.n]

\* a caller's mutator: assigns one field
Mutators(type) ==
  (IF type = "TestEntity" THEN [field : {"value"}, val : Values] ELSE {})
    \cup (IF type \in {"TestPerson", "Post", "UserWithUniqueEmail"}
          THEN [field : {"link"}, val : Ids] ELSE {})
    \cup (IF type = "Post" THEN [field : {"tags"}, val : TagLists] ELSE {})

mutator(ent, m) ==
  CASE m.field = "value" -> [ent EXCEPT !.value = m.val]
    [] m.field = "link" -> [ent EXCEPT !.link = m.val]
    [] m.field = "tags" -> [ent EXCEPT !.tags = m.val]

\* what an update call returns and, for the properties, what it did: why is
\* the step that raised the error, checks the number of check() calls, dels and
\* ins the number of delete_edge and of successful create_edge calls
UpdateResult(res, why, st, differ, checks, dels, ins) ==
  [res |-> res, why |-> why, st |-> st, differ |-> differ,
   checks |-> checks, dels |-> dels, ins |-> ins]

drafts_never_equal(draft0, draft1) == FALSE

\* `if draft0 == draft1`: the derived PartialEq of the drafts
drafts_equal(draft0, draft1) == draft0 = draft1

reconcile_write_first(b, st, ent, expected, draft0, draft1, f0, f1) ==
  LET u == update_internal(b, st, ent.id, ent, expected)
      edge0 == check(draft0, f0)
      edge1 == check(draft1, f1)
  IN  IF ~edge0.ok THEN UpdateResult("err", "check", u.st, TRUE, 1, 0, 0)
      ELSE IF ~edge1.ok THEN UpdateResult("err", "check", u.st, TRUE, 2, 0, 0)
      ELSE IF ~u.updated THEN UpdateResult("false", "", u.st, TRUE, 2, 0, 0)
      ELSE LET st1 == delete_edges(b, u.st, edge0.val, 1)
               c == create_edges(b, st1, edge1.val, 1, 0)
           IN  UpdateResult(IF c.ok THEN "true" ELSE "err",
                            IF c.ok THEN "" ELSE "create_edge",
                            c.st, TRUE, 2, Len(edge0.val), c.n)

reconcile_insert_first(b, st, ent, expected, draft0, draft1, f0, f1) ==
  LET edge0 == check(draft0, f0)
      edge1 == check(draft1, f1)
  IN  IF ~edge0.ok THEN UpdateResult("err", "check", st, TRUE, 1, 0, 0)
      ELSE IF ~edge1.ok THEN UpdateResult("err", "check", st, TRUE, 2, 0, 0)
      ELSE
        LET u == update_internal(b, st, ent.id, ent, expected)
        IN  IF ~u.updated THEN UpdateResult("false", "", u.st, TRUE, 2, 0, 0)
            ELSE
              LET c == create_edges(b, u.st, edge1.val, 1, 0)
              IN  UpdateResult(IF c.ok THEN "true" ELSE "err",
                               IF c.ok THEN "" ELSE "create_edge",
                               delete_edges(b, c.st, edge0.val, 1),
                               TRUE, 2, Len(edge0.val), c.n)

reconcile_version_first(b, st, ent, expected, draft0, draft1, f0, f1) ==
  LET current == get(b, st, ent.id)
      edge0 == check(draft0, f0)
      edge1 == check(draft1, f1)
  IN  IF current = None \/ current.last_updated # expected
      THEN UpdateResult("false", "", st, TRUE, 0, 0, 0)
      ELSE IF ~edge0.ok THEN UpdateResult("err", "check", st, TRUE, 1, 0, 0)
      ELSE IF ~edge1.ok THEN UpdateResult("err", "check", st, TRUE, 2, 0, 0)
      ELSE
        LET u == update_internal(b, st, ent.id, ent, expected)
            st1 == delete_edges(b, u.st, edge0.val, 1)
            c == create_edges(b, st1, edge1.val, 1, 0)
        IN  UpdateResult(IF c.ok THEN "true" ELSE "err",
                         IF c.ok THEN "" ELSE "create_edge",
                         c.st, TRUE, 2, Len(edge0.val), c.n)

\* Transactional::update when the drafts differ: check both drafts, write the
\* entity under CAS, then delete the edges of draft0 and create those of draft1
reconcile(b, st, ent, expected, draft0, draft1, f0, f1) ==
  LET edge0 == check(draft0, f0)
      edge1 == check(draft1, f1)
  IN  IF ~edge0.ok THEN UpdateResult("err", "check", st, TRUE, 1, 0, 0)
      ELSE IF ~edge1.ok THEN UpdateResult("err", "check", st, TRUE, 2, 0, 0)
      ELSE
        LET u == update_internal(b, st, ent.id, ent, expected)
        IN  IF ~u.updated THEN UpdateResult("false", "", u.st, TRUE, 2, 0, 0)
            ELSE
              LET st1 == delete_edges(b, u.st, edge0.val, 1)
                  c == create_edges(b, st1, edge1.val, 1, 0)
              IN  UpdateResult(IF c.ok THEN "true" ELSE "err",
                               IF c.ok THEN "" ELSE "create_edge",
                               c.st, TRUE, 2, Len(edge0.val), c.n)

\* Transactional::update, the same statements in both backends.  ent0 is the
\* entity behind the handle, f0 and f1 the outcomes of the find_edges calls a
\* check of draft0 and of draft1 makes.  r is what the call returns, ent the
\* caller's entity afterwards
update(b, st, ent0, m, clock, f0, f1) ==
  LET draft0 == draft(ent0)
      expected_last_updated == ent0.last_updated
      ent == mark_updated(mutator(ent0, m), clock)
      draft1 == draft(ent)
  IN  IF drafts_equal(draft0, draft1)
      THEN LET u == update_internal(b, st, ent.id, ent, expected_last_updated)
           IN  [r |-> UpdateResult(IF u.updated THEN "true" ELSE "false", "", u.st,
                                   FALSE, 0, 0, 0),
                ent |-> ent]
      ELSE [r |-> reconcile(b, st, ent, expected_last_updated, draft0, draft1, f0, f1),
            ent |-> ent]

(***************************************************************************)
(* State.                                                                  *)
(***************************************************************************)
VARIABLES
  backend,   \* which backend this run is on
  etype,     \* the entity type the callers of this run store
  db,        \* the committed store
  tx,        \* the store as the open transaction sees it (db when none is open)
  active,    \* whether a transaction is open
  handles,   \* the callers' in-memory entities, read with get
  stale,     \* per handle: since the handle was read, an update through
             \* another handle has returned true on its entity, and that write
             \* is still in the store
  id_gen,    \* the last id the snowflake generator gave out
  txns,      \* the number of transactions begun so far
  ops,       \* the number of get, create, update and delete calls so far
  last,      \* the last get, create, update or delete and its outcome
  deleted,   \* the ids of the entities the open transaction has deleted and
             \* that are not stored again
  codec,     \* the edge key codec at work on two triples: the triples t1 and
             \* t2, their keys k1 and k2, the keys parsed back p1 and p2
  pairs,     \* check() and == at work on two pair drafts of one type: the
             \* drafts d1 and d2, the outcomes f1 and f2 of the find_edges
             \* calls the components of d1 make, what check(d1) returned
  writers    \* the threads that share one HeedEnv, each with its position:
             \* idle, waiting in write_txn, holding the write transaction, or
             \* inside update_internal between the version read and the put

vars ==
  <<backend, etype, db, tx, active, handles, stale, id_gen, txns, ops, last, deleted,
    codec, pairs, writers>>

\* the codec before make_edge_key has run on the triples t1 and t2
Triples(t1, t2) ==
  [stage |-> "triples", t1 |-> t1, t2 |-> t2, k1 |-> <<>>, k2 |-> <<>>,
   p1 |-> None, p2 |-> None]

\* two pair drafts before check has run on the first
Pairs(d1, d2, f1, f2) ==
  [stage |-> "drafts", d1 |-> d1, d2 |-> d2, f1 |-> f1, f2 |-> f2,
   r |-> Err, checks |-> 0, equal |-> FALSE]

NoPairs == Pairs(None, None, TRUE, TRUE)

\* a thread that holds no transaction
IdleWriter == [pc |-> "idle", m |-> None, clock |-> 0, seen |-> None]

NoWriters == [t \in Handles |-> IdleWriter]

\* the record of a call: op and the handle h it went through, what it returned
\* (res, id, ent) and, for the properties, what it did
NoOp(op) ==
  [op |-> op, h |-> 0, res |-> "ok", why |-> "", id |-> 0, ent |-> None,
   differ |-> FALSE, stale |-> FALSE, checks |-> 0, dels |-> 0, ins |-> 0,
   edge |-> None, query |-> None, found |-> <<>>, seen |-> <<>>]

Init ==
  /\ backend \in Backends
  /\ etype \in EntTypes
  /\ db = EmptyStore
  /\ tx = EmptyStore
  /\ active = FALSE
  /\ handles = [h \in Handles |-> None]
  /\ stale = [h \in Handles |-> FALSE]
  /\ id_gen = 0
  /\ txns = 0
  /\ ops = 0
  /\ last = NoOp("init")
  /\ deleted = {}
  /\ codec = Triples(None, None)
  /\ pairs = NoPairs
  /\ writers = NoWriters

\* HeedEnv::write_txn / Txn::new: one transaction at a time
Begin ==
  /\ ~active
  /\ txns < MaxTxns
  /\ active' = TRUE
  /\ tx' = db
  /\ txns' = txns + 1
  /\ last' = NoOp("begin")
  /\ deleted' = {}
  /\ UNCHANGED <<writers, pairs, codec, backend, etype, db, handles, stale, id_gen, ops>>

Commit_twice ==
  /\ db' = tx
  /\ active' = FALSE
  /\ last' = NoOp("commit")
  /\ UNCHANGED <<writers, pairs, codec, backend, etype, tx, handles, stale, id_gen, txns, ops, deleted>>

Commit_loses_edges ==
  /\ active
  /\ db' = [tx EXCEPT !.edges = db.edges]
  /\ active' = FALSE
  /\ last' = NoOp("commit")
  /\ UNCHANGED <<writers, pairs, codec, backend, etype, tx, handles, stale, id_gen, txns, ops, deleted>>

\* Transactional::commit
Commit ==
  /\ active
  /\ db' = tx
  /\ active' = FALSE
  /\ last' = NoOp("commit")
  /\ UNCHANGED <<writers, pairs, codec, backend, etype, tx, handles, stale, id_gen, txns, ops, deleted>>

\* what a drop discards: differ, the entity records are not the committed
\* ones; ins and dels, the edges the transaction added and removed
Dropped ==
  [NoOp("drop") EXCEPT
     !.differ = tx.ents # db.ents,
     !.ins = Cardinality(LiveEdges(backend, tx) \ LiveEdges(backend, db)),
     !.dels = Cardinality(LiveEdges(backend, db) \ LiveEdges(backend, tx))]

Drop_keeps_edges ==
  /\ active
  /\ tx' = [db EXCEPT !.edges = tx.edges]
  /\ active' = FALSE
  /\ stale' = [h \in Handles |-> FALSE]
  /\ last' = Dropped
  /\ deleted' = {}
  /\ UNCHANGED <<writers, pairs, codec, backend, etype, db, handles, id_gen, txns, ops>>

\* the transaction is dropped without commit
Drop ==
  /\ active
  /\ tx' = db
  /\ active' = FALSE
  /\ stale' = [h \in Handles |-> FALSE]
  /\ last' = Dropped
  /\ deleted' = {}
  /\ UNCHANGED <<writers, pairs, codec, backend, etype, db, handles, id_gen, txns, ops>>

\* a caller reads entity id into handle h
Get(h, id) ==
  /\ active
  /\ ops < MaxOps
  /\ \E ent \in {get(backend, tx, id)} :
         /\ handles' = IF ent = None THEN handles ELSE [handles EXCEPT ![h] = ent]
         /\ stale' = IF ent = None THEN stale ELSE [stale EXCEPT ![h] = FALSE]
         /\ last' = [NoOp("get") EXCEPT !.h = h, !.id = id,
                                         !.res = IF ent = None THEN "none" ELSE "some",
                                         !.ent = ent]
  /\ ops' = ops + 1
  /\ UNCHANGED <<writers, pairs, codec, backend, etype, db, tx, active, id_gen, txns, deleted>>

\* a caller creates ent and, as the tests do, keeps it in handle h with the
\* returned id set
Create(h, ent, find_ok) ==
  /\ active
  /\ ops < MaxOps
  /\ next_id(backend, tx, id_gen) \in Ids
  /\ \E r \in {create(backend, tx, id_gen, ent, find_ok)} :
         /\ tx' = r.st
         /\ id_gen' = IF backend = "heed" THEN r.id ELSE id_gen
         /\ handles' = IF r.res = "ok" THEN [handles EXCEPT ![h] = r.ent] ELSE handles
         /\ stale' = IF r.res = "ok" THEN [stale EXCEPT ![h] = FALSE] ELSE stale
         /\ last' = [NoOp("create") EXCEPT !.h = h, !.res = r.res, !.id = r.id,
                                            !.ent = r.ent, !.ins = r.ins]
         /\ deleted' = deleted \ {r.id}
  /\ ops' = ops + 1
  /\ UNCHANGED <<writers, pairs, codec, backend, etype, db, active, txns>>

\* update(&mut handle, mutator): the caller sees the mutated entity afterwards.
\* clock is the reading mark_updated takes
Update(h, m, clock, f0, f1) ==
  /\ active
  /\ ops < MaxOps
  /\ handles[h] # None
  /\ \E ent0 \in {handles[h]} : \E u \in {update(backend, tx, ent0, m, clock, f0, f1)} :
      \E r \in {u.r} :
         /\ tx' = r.st
         /\ handles' = [handles EXCEPT ![h] = u.ent]
         /\ stale' =
              [g \in Handles |->
                 IF r.res # "true" THEN stale[g]
                 ELSE IF g = h THEN FALSE
                 ELSE IF handles[g].id = ent0.id THEN TRUE
                 ELSE stale[g]]
         /\ last' = [NoOp("update") EXCEPT !.h = h, !.res = r.res, !.why = r.why,
                                            !.id = ent0.id,
                                            !.differ = r.differ,
                                            !.stale = stale[h],
                                            !.checks = r.checks, !.dels = r.dels,
                                            !.ins = r.ins]
  /\ ops' = ops + 1
  /\ UNCHANGED <<writers, pairs, codec, backend, etype, db, active, id_gen, txns, deleted>>

Delete(id) ==
  /\ active
  /\ ops < MaxOps
  /\ tx' = delete(backend, tx, id)
  /\ stale' = [h \in Handles |-> IF handles[h].id = id THEN FALSE ELSE stale[h]]
  /\ last' = [NoOp("delete") EXCEPT
                 !.id = id, !.ent = get(backend, tx, id),
                 !.dels = Cardinality({e \in LiveEdges(backend, tx) : e.dest = id})]
  /\ deleted' = IF get(backend, tx, id) = None THEN deleted ELSE deleted \cup {id}
  /\ ops' = ops + 1
  /\ UNCHANGED <<writers, pairs, codec, backend, etype, db, active, handles, id_gen, txns>>

NewEnts(t) ==
  {NewEnt(t, v, l, ts, lu) :
     v \in ValuesOf(t), l \in LinksOf(t), ts \in TagsOf(t), lu \in VersionsOf(t)}

Next ==
  \/ Begin
  \/ Commit
  \/ Drop
  \/ \E h \in Handles, id \in Ids : Get(h, id)
  \/ \E h \in Handles, ent \in NewEnts(etype), find_ok \in FindOutcomes(etype) :
       Create(h, ent, find_ok)
  \/ \E h \in Handles :
       \E m \in Mutators(handles[h].type), clock \in ClocksOf(handles[h].type) :
         \E f0 \in FindOutcomes(handles[h].type),
            f1 \in FindOutcomes(handles[h].type) :
           Update(h, m, clock, f0, f1)
  \/ \E id \in Ids : Delete(id)

Spec == Init /\ [][Next]_vars

(***************************************************************************)
(* Edge queries (src/ents/src/query_edge.rs) and the two find_edges.       *)
(***************************************************************************)
\* an id whose encoding differs from that of 1 in another byte
BigId == 256

\* the ids edges are drawn from in the edge-level specification: a small id
\* and the largest one
EdgeIds == {1, U64Max}

\* the number of edges the edge-level specification keeps stored
MaxStored == 3

\* the sort keys: a one-byte key and that key followed by a zero byte, so that
\* one key is a proper prefix of the other
SortKeys == {<<97>>, <<97, 0>>}

MAX_EDGES == 100
SqlLimit == 100

SortOrders == {"Asc", "Desc"}

Edge(source, sort_key, dest) ==
  [source |-> source, sort_key |-> sort_key, dest |-> dest]

EdgeCursor(sort_key, destination) ==
  [sort_key |-> sort_key, destination |-> destination]

EdgeQuery(edge_names, order, cursor) ==
  [edge_names |-> edge_names, order |-> order, cursor |-> cursor]

\* Ord for [u8]: the first differing byte decides, a proper prefix is smaller
RECURSIVE bytes_lt(_, _, _)
bytes_lt(a, b, i) ==
  IF i > Len(a) THEN i <= Len(b)
  ELSE IF i > Len(b) THEN FALSE
  ELSE IF a[i] # b[i] THEN a[i] < b[i]
  ELSE bytes_lt(a, b, i + 1)

BytesLess(a, b) == bytes_lt(a, b, 1)

\* Ord for the pair (sort_key, dest)
PairLess(k1, d1, k2, d2) == BytesLess(k1, k2) \/ (k1 = k2 /\ d1 < d2)

EdgeLess(a, b) == PairLess(a.sort_key, a.dest, b.sort_key, b.dest)

\* the orders the stores keep: LMDB keys by their bytes, the rows of a SELECT
\* by ORDER BY type, dest, ascending or descending
Before(by, a, b) ==
  IF by = "key" THEN BytesLess(a, b)
  ELSE IF by = "Asc" THEN PairLess(a.type, a.dest, b.type, b.dest)
  ELSE PairLess(b.type, b.dest, a.type, a.dest)

\* the elements of a set as a sequence in one of these orders: the middle
\* element x, the ones before it in front and the ones after it behind
RECURSIVE InOrder(_, _)
Around(S, by, x) ==
  InOrder({y \in S : Before(by, y, x)}, by) \o <<x>>
    \o InOrder({y \in S : Before(by, x, y)}, by)

InOrder(S, by) ==
  IF S = {} THEN <<>>
  ELSE Around(S, by,
              CHOOSE x \in S :
                Cardinality({y \in S : Before(by, y, x)}) = Cardinality(S) \div 2)

\* the keys of an LMDB database, as a cursor walks them: in byte order
keys_in_order(S) == InOrder(S, "key")

\* Database::prefix_iter: the keys that start with prefix
prefix_iter(st, prefix) ==
  keys_in_order({k \in st.edges :
                   Len(k) >= Len(prefix) /\ SubSeq(k, 1, Len(prefix)) = prefix})

\* the scan loop of find_edges_internal: it breaks at the first key of another
\* source and skips the keys whose sort_key is not among the names
scan(keys, source, edge_names) ==
  LET parsed == [i \in 1..Len(keys) |-> parse_edge_key(keys[i])]
      past == {i \in 1..Len(keys) : parsed[i].source # source}
      stop == IF past = {} THEN Len(keys) + 1
              ELSE CHOOSE i \in past : \A j \in past : i <= j
      wanted(p) == edge_names = <<>> \/ p.sort_key \in Range(edge_names)
  IN  SelectSeq([i \in 1..(stop - 1) |-> Edge(parsed[i].source, parsed[i].sort_key,
                                               parsed[i].dest)],
                wanted)

\* all_edges.sort_by(..)
sort_by(all_edges, order) ==
  IF order = "Asc" THEN SortSeq(all_edges, LAMBDA a, b : EdgeLess(a, b))
  ELSE SortSeq(all_edges, LAMBDA a, b : EdgeLess(b, a))

\* the cursor loop of find_edges_internal: it skips the edges not past the
\* cursor and breaks once results holds MAX_EDGES edges
page(all_edges, order, cursor) ==
  LET kept(edge) ==
        \/ cursor = None
        \/ IF order = "Asc"
           THEN PairLess(cursor.sort_key, cursor.destination,
                         edge.sort_key, edge.dest)
           ELSE PairLess(edge.sort_key, edge.dest,
                         cursor.sort_key, cursor.destination)
      results == SelectSeq(all_edges, kept)
  IN  IF Len(results) >= MAX_EDGES THEN SubSeq(results, 1, MAX_EDGES) ELSE results

find_edges_internal_whole_table(st, source, query) ==
  LET keys == keys_in_order(st.edges)
      all_edges == [i \in 1..Len(keys) |-> parse_edge_key(keys[i])]
  IN  page(sort_by(all_edges, query.order), query.order, query.cursor)

find_edges_internal(st, source, query) ==
  LET keys == prefix_iter(st, write_u64(source))
      all_edges == scan(keys, source, query.edge_names)
  IN  page(sort_by(all_edges, query.order), query.order, query.cursor)

\* ORDER BY type, dest (ASC or DESC) LIMIT 100 over the selected rows
order_by_limit(rows, order, limit) ==
  LET sorted == InOrder(rows, order)
      n == IF Len(sorted) < limit THEN Len(sorted) ELSE limit
  IN  [i \in 1..n |-> Edge(as_u64(sorted[i].source), sorted[i].type,
                           as_u64(sorted[i].dest))]

Sqlite_find_edges_name_prefix(st, source, query) ==
  LET name_filter(r) ==
        \/ query.edge_names = <<>>
        \/ \E n \in Range(query.edge_names) :
             Len(n) <= Len(r.type) /\ SubSeq(r.type, 1, Len(n)) = n
      cursor_filter(r) ==
        \/ query.cursor = None
        \/ IF query.order = "Asc"
           THEN PairLess(query.cursor.sort_key, query.cursor.destination,
                         r.type, r.dest)
           ELSE PairLess(r.type, r.dest,
                         query.cursor.sort_key, query.cursor.destination)
      rows == {r \in st.edges : r.source = source /\ name_filter(r) /\ cursor_filter(r)}
  IN  order_by_limit(rows, query.order, SqlLimit)

\* SELECT source, type, dest FROM edges WHERE source = ? [AND type IN (..)]
\* [AND (type, dest) > (?, ?) | < (?, ?)] ORDER BY .. LIMIT 100
Sqlite_find_edges(st, source, query) ==
  LET name_filter(r) == query.edge_names = <<>> \/ r.type \in Range(query.edge_names)
      cursor_filter(r) ==
        \/ query.cursor = None
        \/ IF query.order = "Asc"
           THEN PairLess(query.cursor.sort_key, query.cursor.destination,
                         r.type, r.dest)
           ELSE PairLess(r.type, r.dest,
                         query.cursor.sort_key, query.cursor.destination)
      rows == {r \in st.edges : r.source = source /\ name_filter(r) /\ cursor_filter(r)}
  IN  order_by_limit(rows, query.order, SqlLimit)

\* the source and the cursor's destination are bound as the u64 they are, and
\* the query fails when one cannot be bound
Sqlite_find_edges_ok(source, query) ==
  /\ to_sql_ok(source)
  /\ (query.cursor # None => to_sql_ok(query.cursor.destination))

\* whether find_edges returns Ok
find_edges_ok(b, source, query) == b = "heed" \/ Sqlite_find_edges_ok(source, query)

\* the edges find_edges returns, none when it returns an error
find_edges(b, st, source, query) ==
  IF b = "heed" THEN find_edges_internal(st, source, query)
  ELSE IF Sqlite_find_edges_ok(source, query) THEN Sqlite_find_edges(st, source, query)
  ELSE <<>>

(***************************************************************************)
(* The edge-level specification: one open transaction on an empty          *)
(* database, in which a caller creates and queries edges directly.         *)
(***************************************************************************)
EdgeValues == {EdgeValue(s, k, d) : s \in EdgeIds, k \in SortKeys, d \in EdgeIds}

NameLists == SeqsUpTo(SortKeys, 1)

Cursors == {None} \cup {EdgeCursor(k, d) : k \in SortKeys, d \in EdgeIds}

Queries ==
  {EdgeQuery(n, o, c) : n \in NameLists, o \in SortOrders, c \in Cursors}

InitEdges ==
  /\ backend \in Backends
  /\ etype = "TestEntity"
  /\ db = EmptyStore
  /\ tx = EmptyStore
  /\ active = TRUE
  /\ handles = [h \in Handles |-> None]
  /\ stale = [h \in Handles |-> FALSE]
  /\ id_gen = 0
  /\ txns = 1
  /\ ops = 0
  /\ last = NoOp("begin")
  /\ deleted = {}
  /\ codec = Triples(None, None)
  /\ pairs = NoPairs
  /\ writers = NoWriters

\* Transactional::create_edge called by a caller
CreateEdge(e) ==
  /\ active
  /\ Cardinality(LiveEdges(backend, tx) \cup {e}) <= MaxStored
  /\ \E r \in {create_edge(backend, tx, e)} :
         /\ tx' = r.st
         /\ last' = [NoOp("create_edge") EXCEPT
                        !.res = IF r.ok THEN "ok" ELSE "err", !.edge = e]
  /\ UNCHANGED <<writers, pairs, codec, backend, etype, db, active, handles, stale, id_gen, txns, ops,
                 deleted>>

\* Transactional::delete called on the id of an edge end
DeleteEnd(id) ==
  /\ active
  /\ tx' = delete(backend, tx, id)
  /\ last' = [NoOp("delete") EXCEPT
                 !.res = IF delete_ok(backend, id) THEN "ok" ELSE "err",
                 !.id = id, !.ent = get(backend, tx, id),
                 !.dels = Cardinality({e \in LiveEdges(backend, tx) : e.dest = id})]
  /\ UNCHANGED <<writers, pairs, codec, backend, etype, db, active, handles, stale, id_gen, txns, ops,
                 deleted>>

\* QueryEdge::find_edges
FindEdges(source, query) ==
  /\ active
  /\ last' = [NoOp("find_edges") EXCEPT
                 !.res = IF find_edges_ok(backend, source, query) THEN "ok" ELSE "err",
                 !.id = source, !.query = query,
                 !.found = find_edges(backend, tx, source, query)]
  /\ UNCHANGED <<writers, pairs, codec, backend, etype, db, tx, active, handles, stale, id_gen, txns, ops,
                 deleted>>

NextEdges ==
  \/ \E e \in EdgeValues : CreateEdge(e)
  \/ \E id \in EdgeIds : DeleteEnd(id)
  \/ \E source \in EdgeIds, query \in Queries : FindEdges(source, query)

SpecEdges == InitEdges /\ [][NextEdges]_vars

(***************************************************************************)
(* The page-limit specification: a caller inserts edges of one source and  *)
(* one name, one dest after the other, past the page size, and queries.    *)
(***************************************************************************)
\* the number of edges inserted
MaxInserted == 102

\* the dests inserted so far that are not the largest id
Items == {e \in LiveEdges(backend, tx) : e.dest # U64Max}

\* insert_edges: the next edge (1, name, dest).  The dests are 1, 2, .. in
\* turn; the first edge may be the one to the largest id instead
InsertItem(d) ==
  /\ active
  /\ Cardinality(tx.edges) < MaxInserted
  /\ \/ d = Cardinality(Items) + 1
     \/ d = U64Max /\ tx.edges = {}
  /\ \E e \in {EdgeValue(1, <<97>>, d)} : \E r \in {create_edge(backend, tx, e)} :
         /\ tx' = r.st
         /\ last' = [NoOp("create_edge") EXCEPT
                        !.res = IF r.ok THEN "ok" ELSE "err", !.edge = e]
  /\ UNCHANGED <<writers, pairs, codec, backend, etype, db, active, handles, stale, id_gen, txns, ops,
                 deleted>>

\* the queries made around the page size: both orders, with and without a
\* cursor
LimitQueries ==
  {EdgeQuery(<<>>, o, c) : o \in SortOrders, c \in {None, EdgeCursor(<<97>>, 1)}}

\* find_edges once the page size is within reach
FindPage(query) ==
  /\ Cardinality(tx.edges) >= MAX_EDGES - 1
  /\ FindEdges(1, query)

NextLimit ==
  \/ \E d \in 1..MaxInserted \cup {U64Max} : InsertItem(d)
  \/ \E query \in LimitQueries : FindPage(query)

SpecLimit == InitEdges /\ [][NextLimit]_vars

(***************************************************************************)
(* The pagination specification: after the inserts a caller walks the      *)
(* pages of one query, the last edge of a page being the cursor of the     *)
(* next, while the edge set stays as it is.                                *)
(***************************************************************************)
\* a page of the walk: the query made, the page found and the edges seen on
\* the pages so far, this one included
Page(source, query, seen) ==
  \E found \in {find_edges(backend, tx, source, query)} :
    last' = [NoOp("page") EXCEPT
               !.res = IF find_edges_ok(backend, source, query) THEN "ok" ELSE "err",
               !.id = source, !.query = query, !.found = found,
               !.seen = seen \o found]

\* the first page: no cursor
FirstPage(names, order) ==
  /\ active
  /\ last.op # "page"
  /\ Cardinality(tx.edges) >= MAX_EDGES - 1
  /\ Page(1, EdgeQuery(names, order, None), <<>>)
  /\ UNCHANGED <<writers, pairs, codec, backend, etype, db, tx, active, handles, stale, id_gen, txns, ops,
                 deleted>>

\* the page after a page that was not empty: the cursor is its last edge
FollowingPage ==
  /\ active
  /\ last.op = "page"
  /\ last.res = "ok"
  /\ last.found # <<>>
  /\ \E last_edge \in {last.found[Len(last.found)]} :
       Page(last.id,
            EdgeQuery(last.query.edge_names, last.query.order,
                      EdgeCursor(last_edge.sort_key, last_edge.dest)),
            last.seen)
  /\ UNCHANGED <<writers, pairs, codec, backend, etype, db, tx, active, handles, stale, id_gen, txns, ops,
                 deleted>>

NextPages ==
  \/ \E d \in 1..MaxInserted \cup {U64Max} : last.op # "page" /\ InsertItem(d)
  \/ \E names \in {<<>>, <<(<<97>>)>>}, order \in SortOrders : FirstPage(names, order)
  \/ FollowingPage

SpecPages == InitEdges /\ [][NextPages]_vars

(***************************************************************************)
(* The sequential-update specification: in one transaction a caller        *)
(* creates one entity and then, round after round, reads it with get and   *)
(* updates the entity just read.  No one else writes.                      *)
(***************************************************************************)
\* the number of rounds: `for i in 0..3`
MaxRounds == 3

\* the rounds begun so far: ops counts the create and every get and update
Rounds == ops \div 2

\* txn.create(entity): the one entity of the run
CreateOne(ent, find_ok) ==
  /\ active
  /\ ops = 0
  /\ \E r \in {create(backend, tx, id_gen, ent, find_ok)} :
         /\ r.res = "ok"
         /\ tx' = r.st
         /\ id_gen' = IF backend = "heed" THEN r.id ELSE id_gen
         /\ last' = [NoOp("create") EXCEPT !.h = 1, !.res = r.res, !.id = r.id,
                                            !.ent = r.ent, !.ins = r.ins]
  /\ ops' = 1
  /\ UNCHANGED <<writers, pairs, codec, backend, etype, db, active, handles, stale, txns, deleted>>

\* `let retrieved = txn.get(entity_id)?`: a round begins
ReadRound ==
  /\ active
  /\ last.op \in {"create", "update"}
  /\ Rounds < MaxRounds
  /\ \E ent \in {get(backend, tx, last.id)} :
         /\ ent # None
         /\ handles' = [handles EXCEPT ![1] = ent]
         /\ last' = [NoOp("get") EXCEPT !.h = 1, !.id = last.id, !.res = "some",
                                         !.ent = ent]
  /\ ops' = ops + 1
  /\ UNCHANGED <<writers, pairs, codec, backend, etype, db, tx, active, stale, id_gen, txns, deleted>>

\* `txn.update(concrete_ent, |e| ..)` on the entity just read
UpdateRound(m, clock, f0, f1) ==
  /\ active
  /\ last.op = "get"
  /\ \E u \in {update(backend, tx, handles[1], m, clock, f0, f1)} : \E r \in {u.r} :
         /\ tx' = r.st
         /\ handles' = [handles EXCEPT ![1] = u.ent]
         /\ last' = [NoOp("update") EXCEPT !.h = 1, !.res = r.res, !.why = r.why,
                                            !.id = last.id, !.differ = r.differ,
                                            !.checks = r.checks, !.dels = r.dels,
                                            !.ins = r.ins]
  /\ ops' = ops + 1
  /\ UNCHANGED <<writers, pairs, codec, backend, etype, db, active, stale, id_gen, txns, deleted>>

InitRounds ==
  /\ backend \in Backends
  /\ etype \in EntTypes
  /\ db = EmptyStore
  /\ tx = EmptyStore
  /\ active = TRUE
  /\ handles = [h \in Handles |-> None]
  /\ stale = [h \in Handles |-> FALSE]
  /\ id_gen = 0
  /\ txns = 1
  /\ ops = 0
  /\ last = NoOp("begin")
  /\ deleted = {}
  /\ codec = Triples(None, None)
  /\ pairs = NoPairs
  /\ writers = NoWriters

\* the mutators of the rounds: those of the other runs and, for a Post, one
\* that sets tag_ids to a list that names a tag twice
RoundMutators(type) ==
  Mutators(type)
    \cup (IF type = "Post" THEN {[field |-> "tags", val |-> <<1, 1>>]} ELSE {})

NextRounds ==
  \/ \E ent \in NewEnts(etype), find_ok \in FindOutcomes(etype) : CreateOne(ent, find_ok)
  \/ ReadRound
  \/ \E m \in RoundMutators(etype), clock \in ClocksOf(etype) :
       \E f0 \in FindOutcomes(etype), f1 \in FindOutcomes(etype) :
         UpdateRound(m, clock, f0, f1)

SpecRounds == InitRounds /\ [][NextRounds]_vars

(***************************************************************************)
(* The codec specification: make_edge_key and parse_edge_key at work on    *)
(* two triples.                                                            *)
(***************************************************************************)
\* the longest sort key given to the codec
MaxKeyLen == 2

\* ids with a zero, a low and a second-lowest byte and the largest id; sort
\* key bytes that are not text
CodecIds == {0, 1, BigId, U64Max}
CodecBytes == {0, 255}

CodecTriples ==
  {EdgeValue(s, k, d) :
     s \in CodecIds, k \in SeqsUpTo(CodecBytes, MaxKeyLen), d \in CodecIds}

InitCodec ==
  /\ backend = "heed"
  /\ etype = "TestEntity"
  /\ db = EmptyStore
  /\ tx = EmptyStore
  /\ active = FALSE
  /\ handles = [h \in Handles |-> None]
  /\ stale = [h \in Handles |-> FALSE]
  /\ id_gen = 0
  /\ txns = 0
  /\ ops = 0
  /\ last = NoOp("init")
  /\ deleted = {}
  /\ \E t1 \in CodecTriples, t2 \in CodecTriples : codec = Triples(t1, t2)
  /\ pairs = NoPairs
  /\ writers = NoWriters

\* make_edge_key on both triples
Encode ==
  /\ codec.stage = "triples"
  /\ codec' = [codec EXCEPT
                 !.stage = "keys",
                 !.k1 = make_edge_key(codec.t1.source, codec.t1.sort_key, codec.t1.dest),
                 !.k2 = make_edge_key(codec.t2.source, codec.t2.sort_key, codec.t2.dest)]
  /\ UNCHANGED <<writers, pairs, backend, etype, db, tx, active, handles, stale, id_gen, txns, ops,
                 last, deleted>>

\* parse_edge_key on both keys
Decode ==
  /\ codec.stage = "keys"
  /\ codec' = [codec EXCEPT
                 !.stage = "parsed",
                 !.p1 = parse_edge_key(codec.k1),
                 !.p2 = parse_edge_key(codec.k2)]
  /\ UNCHANGED <<writers, pairs, backend, etype, db, tx, active, handles, stale, id_gen, txns, ops,
                 last, deleted>>

NextCodec == Encode \/ Decode

SpecCodec == InitCodec /\ [][NextCodec]_vars

(***************************************************************************)
(* The null-provider specification: in one transaction a caller creates    *)
(* edges directly and creates, reads and updates entities of a type whose  *)
(* provider is NullEdgeProvider.                                           *)
(***************************************************************************)
\* the edges the caller creates: from and to the id of the first entity
NullEdges == {EdgeValue(1, <<97>>, 1), EdgeValue(1, <<97>>, U64Max)}

NextNull ==
  \/ \E e \in NullEdges : CreateEdge(e)
  \/ \E h \in Handles, id \in Ids : Get(h, id)
  \/ \E h \in Handles, ent \in NewEnts(etype) : Create(h, ent, TRUE)
  \/ \E h \in Handles :
       \E m \in Mutators(handles[h].type), clock \in ClocksOf(handles[h].type) :
         Update(h, m, clock, TRUE, TRUE)

SpecNull == InitEdges /\ [][NextNull]_vars

(***************************************************************************)
(* The retry specification: in one transaction a caller creates one entity *)
(* and two callers read it into their handles and update it through them,  *)
(* retrying with or without reading again.                                 *)
(***************************************************************************)
\* the number of calls of a run: the create, then gets and updates
MaxCalls == 6

\* txn.get(id) into handle h
RetryGet(h) ==
  /\ active
  /\ ops >= 1
  /\ ops < MaxCalls - 1
  /\ \E ent \in {get(backend, tx, last.id)} :
         /\ ent # None
         /\ handles' = [handles EXCEPT ![h] = ent]
         /\ last' = [NoOp("get") EXCEPT !.h = h, !.id = last.id, !.res = "some",
                                         !.ent = ent]
  /\ ops' = ops + 1
  /\ UNCHANGED <<writers, pairs, codec, backend, etype, db, tx, active, stale, id_gen, txns,
                 deleted>>

\* txn.update(&mut handle, mutator) through handle h
RetryUpdate(h, m, clock) ==
  /\ active
  /\ ops < MaxCalls
  /\ handles[h] # None
  /\ \E u \in {update(backend, tx, handles[h], m, clock, TRUE, TRUE)} : \E r \in {u.r} :
         /\ tx' = r.st
         /\ handles' = [handles EXCEPT ![h] = u.ent]
         /\ last' = [NoOp("update") EXCEPT !.h = h, !.res = r.res, !.why = r.why,
                                            !.id = last.id, !.differ = r.differ,
                                            !.checks = r.checks, !.dels = r.dels,
                                            !.ins = r.ins]
  /\ ops' = ops + 1
  /\ UNCHANGED <<writers, pairs, codec, backend, etype, db, active, stale, id_gen, txns, deleted>>

NextRetry ==
  \/ \E ent \in NewEnts(etype) : CreateOne(ent, TRUE)
  \/ \E h \in Handles : RetryGet(h)
  \/ \E h \in Handles :
       \E m \in RoundMutators(handles[h].type), clock \in ClocksOf(handles[h].type) :
         RetryUpdate(h, m, clock)

SpecRetry == InitRounds /\ [][NextRetry]_vars

(***************************************************************************)
(* The pair-draft specification: check() and == of `impl EdgeDraft for     *)
(* (T1, T2)` at work on two pair drafts of one pair type.                  *)
(***************************************************************************)
\* the leaf drafts of each type
LeafDrafts(kind) ==
  CASE kind = "AuthorEdgeDraft" ->
         {[kind |-> kind, post_id |-> p, author_id |-> a] : p \in Ids, a \in Ids}
    [] kind = "TagsEdgeDraft" ->
         {[kind |-> kind, post_id |-> p, tag_ids |-> t] : p \in Ids, t \in TagLists}
    [] kind = "UniqueEmailDraft" ->
         {[kind |-> kind, user_id |-> u, email |-> e] : u \in Ids, e \in Ids}

LeafKinds == {"AuthorEdgeDraft", "TagsEdgeDraft", "UniqueEmailDraft"}

\* the pair drafts (T1, T2) of one pair type
PairDrafts(k1, k2) ==
  {[kind |-> "Pair", t1 |-> t1, t2 |-> t2] :
     t1 \in LeafDrafts(k1), t2 \in LeafDrafts(k2)}

InitPairs ==
  /\ backend = "heed"
  /\ etype = "Post"
  /\ db = EmptyStore
  /\ tx = EmptyStore
  /\ active = FALSE
  /\ handles = [h \in Handles |-> None]
  /\ stale = [h \in Handles |-> FALSE]
  /\ id_gen = 0
  /\ txns = 0
  /\ ops = 0
  /\ last = NoOp("init")
  /\ deleted = {}
  /\ codec = Triples(None, None)
  /\ \E k1 \in LeafKinds, k2 \in LeafKinds :
       \E d1 \in PairDrafts(k1, k2), d2 \in PairDrafts(k1, k2) :
         \E f1 \in BOOLEAN, f2 \in BOOLEAN : pairs = Pairs(d1, d2, f1, f2)
  /\ writers = NoWriters

\* `draft0 == draft1` on the two pair drafts
Compare ==
  /\ pairs.stage = "drafts"
  /\ pairs' = [pairs EXCEPT !.stage = "compared",
                              !.equal = drafts_equal(pairs.d1, pairs.d2)]
  /\ UNCHANGED <<writers, backend, etype, db, tx, active, handles, stale, id_gen, txns, ops,
                 last, deleted, codec>>

\* check() on the first pair draft
CheckPair ==
  /\ pairs.stage = "compared"
  /\ \E c \in {check_pair(pairs.d1.t1, pairs.d1.t2, pairs.f1, pairs.f2)} :
       pairs' = [pairs EXCEPT !.stage = "checked", !.r = c.r, !.checks = c.checks]
  /\ UNCHANGED <<writers, backend, etype, db, tx, active, handles, stale, id_gen, txns, ops,
                 last, deleted, codec>>

NextPairs == Compare \/ CheckPair

SpecPairs == InitPairs /\ [][NextPairs]_vars

(***************************************************************************)
(* The writers specification: the threads that share one HeedEnv.  Each    *)
(* calls write_txn, works through the transaction it was given and ends it *)
(* by commit or by dropping it.  update_internal is taken in its two       *)
(* steps, the version read and the put.                                    *)
(***************************************************************************)
\* the number of write_txn calls of a run
MaxWriterTxns == 3

\* the threads whose write transaction is open
Holders == {t \in Handles : writers[t].pc \in {"active", "read"}}

\* thread t calls HeedEnv::write_txn
CallWriteTxn(t) ==
  /\ writers[t].pc = "idle"
  /\ txns < MaxWriterTxns
  /\ writers' = [writers EXCEPT ![t].pc = "waiting"]
  /\ txns' = txns + 1
  /\ UNCHANGED <<pairs, codec, backend, etype, db, tx, active, handles, stale, id_gen, ops,
                 last, deleted>>

WriteTxn_unlocked(t) ==
  /\ writers[t].pc = "waiting"
  /\ writers' = [writers EXCEPT ![t].pc = "active"]
  /\ active' = TRUE
  /\ tx' = db
  /\ last' = [NoOp("begin") EXCEPT !.h = t]
  /\ deleted' = {}
  /\ UNCHANGED <<pairs, codec, backend, etype, db, handles, stale, id_gen, txns, ops>>

\* env.write_txn() returns to thread t: the environment gives its one write
\* transaction when no other thread holds it
WriteTxn(t) ==
  /\ writers[t].pc = "waiting"
  /\ Holders = {}
  /\ writers' = [writers EXCEPT ![t].pc = "active"]
  /\ active' = TRUE
  /\ tx' = db
  /\ last' = [NoOp("begin") EXCEPT !.h = t]
  /\ deleted' = {}
  /\ UNCHANGED <<pairs, codec, backend, etype, db, handles, stale, id_gen, txns, ops>>

\* thread t creates ent, the one entity of the run, through its transaction
WriterCreate(t, ent) ==
  /\ writers[t].pc = "active"
  /\ StoredIds(tx) = {}
  /\ next_id(backend, tx, id_gen) \in Ids
  /\ \E r \in {create(backend, tx, id_gen, ent, TRUE)} :
         /\ tx' = r.st
         /\ id_gen' = r.id
         /\ handles' = IF r.res = "ok" THEN [handles EXCEPT ![t] = r.ent] ELSE handles
         /\ last' = [NoOp("create") EXCEPT !.h = t, !.res = r.res, !.id = r.id,
                                            !.ent = r.ent, !.ins = r.ins]
  /\ UNCHANGED <<writers, pairs, codec, backend, etype, db, active, stale, txns, ops, deleted>>

\* thread t reads entity id through its transaction
WriterGet(t, id) ==
  /\ writers[t].pc = "active"
  /\ \E ent \in {get(backend, tx, id)} :
         /\ ent # None
         /\ handles' = [handles EXCEPT ![t] = ent]
         /\ last' = [NoOp("get") EXCEPT !.h = t, !.id = id, !.res = "some", !.ent = ent]
  /\ UNCHANGED <<writers, pairs, codec, backend, etype, db, tx, active, stale, id_gen, txns,
                 ops, deleted>>

\* thread t is in update, at `self.get(id)?` of update_internal: seen is the
\* record the version is read from
UpdateRead(t, m, clock) ==
  /\ writers[t].pc = "active"
  /\ handles[t] # None
  /\ writers' = [writers EXCEPT ![t] = [pc |-> "read", m |-> m, clock |-> clock,
                                        seen |-> get(backend, tx, handles[t].id)]]
  /\ UNCHANGED <<pairs, codec, backend, etype, db, tx, active, handles, stale, id_gen, txns,
                 ops, last, deleted>>

\* thread t is at the put of update_internal and returns from update
UpdateWrite(t) ==
  /\ writers[t].pc = "read"
  /\ \E u \in {update(backend, tx, handles[t], writers[t].m, writers[t].clock, TRUE, TRUE)} :
      \E r \in {u.r} :
         /\ tx' = r.st
         /\ handles' = [handles EXCEPT ![t] = u.ent]
         /\ last' = [NoOp("update") EXCEPT !.h = t, !.res = r.res, !.why = r.why,
                                            !.id = handles[t].id, !.differ = r.differ,
                                            !.checks = r.checks, !.dels = r.dels,
                                            !.ins = r.ins]
  /\ writers' = [writers EXCEPT ![t] = [IdleWriter EXCEPT !.pc = "active"]]
  /\ UNCHANGED <<pairs, codec, backend, etype, db, active, stale, id_gen, txns, ops, deleted>>

\* thread t commits its transaction
WriterCommit(t) ==
  /\ writers[t].pc = "active"
  /\ db' = tx
  /\ active' = FALSE
  /\ writers' = [writers EXCEPT ![t].pc = "idle"]
  /\ last' = [NoOp("commit") EXCEPT !.h = t]
  /\ UNCHANGED <<pairs, codec, backend, etype, tx, handles, stale, id_gen, txns, ops, deleted>>

\* thread t drops its transaction
WriterDrop(t) ==
  /\ writers[t].pc = "active"
  /\ tx' = db
  /\ active' = FALSE
  /\ writers' = [writers EXCEPT ![t].pc = "idle"]
  /\ last' = [NoOp("drop") EXCEPT !.h = t]
  /\ deleted' = {}
  /\ UNCHANGED <<pairs, codec, backend, etype, db, handles, stale, id_gen, txns, ops>>

InitWriters ==
  /\ backend = "heed"
  /\ etype \in EntTypes
  /\ db = EmptyStore
  /\ tx = EmptyStore
  /\ active = FALSE
  /\ handles = [h \in Handles |-> None]
  /\ stale = [h \in Handles |-> FALSE]
  /\ id_gen = 0
  /\ txns = 0
  /\ ops = 0
  /\ last = NoOp("init")
  /\ deleted = {}
  /\ codec = Triples(None, None)
  /\ pairs = NoPairs
  /\ writers = NoWriters

NextWriters ==
  \/ \E t \in Handles : CallWriteTxn(t)
  \/ \E t \in Handles : WriteTxn(t)
  \/ \E t \in Handles : \E ent \in NewEnts(etype) : WriterCreate(t, ent)
  \/ \E t \in Handles : \E id \in Ids : WriterGet(t, id)
  \/ \E t \in Handles :
       \E m \in Mutators(handles[t].type), clock \in ClocksOf(handles[t].type) :
         UpdateRead(t, m, clock)
  \/ \E t \in Handles : UpdateWrite(t)
  \/ \E t \in Handles : WriterCommit(t)
  \/ \E t \in Handles : WriterDrop(t)

SpecWriters == InitWriters /\ [][NextWriters]_vars

(***************************************************************************)
(* Properties.                                                             *)
(***************************************************************************)
\* the step is a get, create, update or delete call: these alone count in ops
\* and set last
Called(op) == ops' = ops + 1 /\ last'.op = op

\* C1: an update through a snapshot that went stale (another snapshot of the
\* same version was used for an update that returned true) returns false
C1_StaleUpdateReturnsFalse ==
  (last.op = "update" /\ last.stale /\ last.res # "err") => last.res = "false"

\* C2: of the updates that start from snapshots of one observed version only
\* one takes effect: an update through a stale snapshot never changes the
\* stored entity, so no successful update is silently overwritten
C2_NoSilentOverwrite ==
  [][(Called("update") /\ last'.stale)
       => get(backend, tx', last'.id) = get(backend, tx, last'.id)]_vars

\* the edges the draft of ent resolves to when its check succeeds
Resolved(ent) == Range(check(draft(ent), TRUE).val)

\* C3: an update that returns false changes neither the stored entities nor
\* the edge set, also when the drafts differ
C3_FalseUpdateChangesNothing ==
  [][(Called("update") /\ last'.res = "false") => (tx' = tx /\ db' = db)]_vars

C3_Witness == last.op = "update" /\ last.res = "false" /\ last.differ

\* C4: after a commit, the live edges with source E are, for every stored
\* entity E, the edges E's draft resolves to
C4_EdgesMatchDrafts ==
  \A id \in StoredIds(db) :
    {e \in LiveEdges(backend, db) : e.source = id}
      = {e \in Resolved(get(backend, db, id)) : e.source = id}

\* C5: an update that returns true with differing drafts leaves the edge set
\* (previous edges minus the edges of the draft before) plus the edges of the
\* draft after: the removals come first, so an edge in both stays
C5_EdgesReconciled ==
  [][(/\ Called("update")
      /\ last'.res = "true"
      /\ draft(handles[last'.h]) # draft(handles'[last'.h]))
       => LiveEdges(backend, tx')
            = (LiveEdges(backend, tx) \ Resolved(handles[last'.h]))
                \cup Resolved(handles'[last'.h])]_vars

C5_Witness ==
  last.op = "update" /\ last.res = "true" /\ last.differ /\ last.dels > 1 /\ last.ins > 1

\* C6: an update whose drafts before and after are equal calls no check(),
\* writes no edge and at most the record of its entity, under the CAS rule
C6_EqualDraftsSkipEdges ==
  [][(Called("update") /\ draft(handles[last'.h]) = draft(handles'[last'.h]))
       => /\ last'.checks = 0 /\ last'.dels = 0 /\ last'.ins = 0
          /\ last'.res \in {"true", "false"}
          /\ tx'.edges = tx.edges
          /\ \A i \in Ids \ {last'.id} : tx'.ents[i] = tx.ents[i]
          /\ (last'.res = "false" => tx' = tx)
          /\ (last'.res = "true" => get(backend, tx', last'.id) = handles'[last'.h])]_vars

C6_Witness ==
  /\ last.op = "update" /\ last.res = "true" /\ ~last.differ
  /\ etype = "UserWithUniqueEmail"

\* C7: a create that succeeds returns an id under which get returns the
\* entity, and has inserted every edge of the draft computed with that id set
C7_CreateStoresEntityAndEdges ==
  (last.op = "create" /\ last.res = "ok")
    => /\ last.id \in Ids
       /\ last.ent.id = last.id
       /\ get(backend, tx, last.id) = last.ent
       /\ Resolved(last.ent) \subseteq LiveEdges(backend, tx)
       /\ \A e \in Resolved(last.ent) : last.id \in {e.source, e.dest}

C7_Witness == last.op = "create" /\ last.res = "ok" /\ last.ins > 0

\* C8: a create that fails leaves no live record of the entity
C8_FailedCreateLeavesNoRecord ==
  (last.op = "create" /\ last.res = "err") => get(backend, tx, last.id) = None

\* C9: an update in which check() of the draft before or after fails returns
\* the error and has applied nothing
C9_FailedCheckAppliesNothing ==
  [][(Called("update") /\ last'.why = "check")
       => (last'.res = "err" /\ tx' = tx /\ db' = db)]_vars

C9_Witness ==
  /\ last.op = "update" /\ last.why = "check" /\ last.checks = 2
  /\ get(backend, tx, last.id) # None

\* C10: after delete(id), get(id) finds nothing and no edge has dest = id
C10_DeleteRemovesEntityAndInbound ==
  last.op = "delete"
    => /\ get(backend, tx, last.id) = None
       /\ \A e \in LiveEdges(backend, tx) : e.dest # last.id

C10_Witness == last.op = "delete" /\ last.ent # None /\ last.dels > 0

\* C11: no live edge has as its dest the id of an entity that was deleted
C11_NoEdgeToDeleted ==
  \A e \in LiveEdges(backend, tx) : e.dest \notin deleted

\* C12: a create_edge of a triple that is already present succeeds and leaves
\* the edge set as it was
C12_CreateEdgeIdempotent ==
  [][\A e \in EdgeValues :
       CreateEdge(e) /\ e \in LiveEdges(backend, tx)
         => last'.res = "ok" /\ LiveEdges(backend, tx') = LiveEdges(backend, tx)]_vars

\* C13: a drop leaves the committed store as it was and the store the next
\* transaction sees is that store, entity records and edges alike; a
\* transaction that begins sees the committed store
C13_DropDiscardsAll ==
  [][/\ (active /\ ~active' /\ last'.op = "drop"
           => /\ db' = db
              /\ tx'.ents = db.ents
              /\ LiveEdges(backend, tx') = LiveEdges(backend, db))
     /\ (~active /\ active'
           => /\ tx'.ents = db.ents
              /\ LiveEdges(backend, tx') = LiveEdges(backend, db))]_vars

\* a transaction that had written entity records and edges was dropped
C13_Witness ==
  /\ last.op = "drop"
  /\ last.differ
  /\ last.ins > 0
  /\ tx = db

\* C14: a commit makes the transaction's entity records and edges the
\* committed store, nothing changes that store until a transaction begins, and
\* the transaction that begins reads every entity and edge of it
C14_CommitMakesVisible ==
  [][/\ (active /\ ~active' /\ last'.op = "commit"
           => /\ db'.ents = tx.ents
              /\ LiveEdges(backend, db') = LiveEdges(backend, tx))
     /\ (~active /\ ~active' => db' = db)
     /\ (~active /\ active'
           => /\ \A id \in Ids : get(backend, tx', id) = get(backend, db, id)
              /\ LiveEdges(backend, tx') = LiveEdges(backend, db))]_vars

\* a second transaction has begun and reads an entity and an edge that the
\* first one committed
C14_Witness ==
  /\ last.op = "begin"
  /\ txns = 2
  /\ \E id \in Ids : get(backend, tx, id) # None
  /\ LiveEdges(backend, tx) # {}

\* the state of the transaction begun last
TxnState ==
  IF txns = 0 THEN "None"
  ELSE IF active THEN "Active"
  ELSE IF last.op = "commit" THEN "Committed"
  ELSE "RolledBack"

\* C15: a transaction is Active until its commit or drop; once Committed or
\* RolledBack nothing more happens on it (the only step is the begin of the
\* next transaction), and every call, commit included, is made on an Active
\* transaction
C15_TransactionStateMachine ==
  [][/\ (~active /\ txns > 0 => last.op \in {"commit", "drop"})
     /\ (TxnState \in {"Committed", "RolledBack"}
           => /\ txns' = txns + 1
              /\ TxnState' = "Active"
              /\ db' = db)
     /\ (TxnState = "Active"
           => /\ txns' = txns
              /\ TxnState' \in {"Active", "Committed", "RolledBack"}
              /\ (TxnState' = "Committed" <=> last'.op = "commit")
              /\ (TxnState' = "RolledBack" <=> last'.op = "drop"))
     /\ (ops' # ops \/ last'.op \in {"commit", "drop"} => TxnState = "Active")]_vars

\* calls were made and two transactions have ended, the second by a commit
\* that stored an entity
C15_Witness ==
  /\ txns = 2
  /\ ops > 0
  /\ TxnState = "Committed"
  /\ StoredIds(db) # {}

\* C16: a get of an id with no stored record returns None, and a get of a
\* stored id returns the stored payload with its id field set to that id
C16_GetReturnsStoredWithId ==
  [][Called("get") =>
       \E id \in {last'.id} :
         /\ (tx.ents[id] = None => last'.res = "none" /\ last'.ent = None)
         /\ (tx.ents[id] # None
               => /\ last'.res = "some"
                  /\ last'.ent.id = id
                  /\ last'.ent = [from_json(tx.ents[id]) EXCEPT !.id = id])]_vars

\* a get returned an entity whose stored payload holds id 0
C16_Witness ==
  /\ last.op = "get"
  /\ last.res = "some"
  /\ last.ent.id = last.id
  /\ tx.ents[last.id] # None
  /\ tx.ents[last.id].id = 0

C18_KeyRoundTrip ==
  codec.stage = "parsed" => codec.p1 = codec.t1 /\ codec.p2 = codec.t2

\* keys were built and parsed back for a triple with the empty sort key and
\* one whose sort key holds the bytes 0 and 255
C18_Witness ==
  /\ codec.stage = "parsed"
  /\ codec.t1.sort_key = <<>>
  /\ codec.t1.dest # 0
  /\ codec.t2.sort_key = <<0, 255>>

\* (source, sort_key, dest) compared field by field
TripleLess(a, b) ==
  \/ a.source < b.source
  \/ a.source = b.source /\ PairLess(a.sort_key, a.dest, b.sort_key, b.dest)

\* C19: the byte order of two encoded keys is the order of their triples
C19_KeyOrderIsTripleOrder ==
  codec.stage # "triples"
    => (BytesLess(codec.k1, codec.k2) <=> TripleLess(codec.t1, codec.t2))

\* C20: every edge find_edges returns is a stored edge whose source is the
\* queried source
C20_FindEdgesOnlyOfSource ==
  last.op = "find_edges"
    => \A i \in 1..Len(last.found) :
         /\ last.found[i].source = last.id
         /\ last.found[i] \in LiveEdges(backend, tx)

\* a query returned edges while edges of another source were stored, with
\* sort keys of both lengths under the queried source
C20_Witness ==
  /\ last.op = "find_edges"
  /\ backend = "heed"
  /\ Len(last.found) = 2
  /\ last.found[1].sort_key # last.found[2].sort_key
  /\ \E e \in LiveEdges(backend, tx) : e.source # last.id

\* the stored edges of the queried source that the names of the query admit
Named(source, query) ==
  {e \in LiveEdges(backend, tx) :
     /\ e.source = source
     /\ (query.edge_names = <<>> \/ e.sort_key \in Range(query.edge_names))}

\* C21: with names, find_edges returns only edges whose sort_key is one of the
\* names; a find_edges without a cursor that succeeds returns every stored edge
\* of the source that the names admit, which with no names is every edge of
\* the source
C21_NameFilter ==
  last.op = "find_edges"
    => /\ (last.query.edge_names # <<>>
             => \A i \in 1..Len(last.found) :
                  last.found[i].sort_key \in Range(last.query.edge_names))
       /\ (last.res = "ok" /\ last.query.cursor = None
             => Range(last.found) = Named(last.id, last.query))

\* a query by the name with a zero byte returned an edge and left out a
\* stored edge of the same source under the other name
C21_Witness ==
  /\ last.op = "find_edges"
  /\ last.query.edge_names = <<(<<97, 0>>)>>
  /\ last.found # <<>>
  /\ \E e \in LiveEdges(backend, tx) : e.source = last.id /\ e.sort_key = <<97>>

\* C22: the list find_edges returns is strictly ascending by (sort_key, dest)
\* for Asc and strictly descending for Desc
C22_StrictlySorted ==
  last.op = "find_edges"
    => \A i \in 1..(Len(last.found) - 1) :
         IF last.query.order = "Asc"
         THEN EdgeLess(last.found[i], last.found[i + 1])
         ELSE EdgeLess(last.found[i + 1], last.found[i])

\* C23: with a cursor, every edge find_edges returns is strictly after the
\* cursor in the requested order: greater than it by (sort_key, dest) for Asc,
\* less than it for Desc
C23_CursorIsExclusiveBound ==
  last.op = "find_edges" /\ last.query.cursor # None
    => \A i \in 1..Len(last.found) :
         IF last.query.order = "Asc"
         THEN PairLess(last.query.cursor.sort_key, last.query.cursor.destination,
                       last.found[i].sort_key, last.found[i].dest)
         ELSE PairLess(last.found[i].sort_key, last.found[i].dest,
                       last.query.cursor.sort_key, last.query.cursor.destination)

\* the stored edges of last's source that pass the names and the cursor of
\* last's query
Passing ==
  {e \in Named(last.id, last.query) :
     \/ last.query.cursor = None
     \/ IF last.query.order = "Asc"
        THEN PairLess(last.query.cursor.sort_key, last.query.cursor.destination,
                      e.sort_key, e.dest)
        ELSE PairLess(e.sort_key, e.dest,
                      last.query.cursor.sort_key, last.query.cursor.destination)}

\* C24: find_edges returns at most 100 edges; it returns 100 of the passing
\* edges when there are more, all of them otherwise, and every passing edge it
\* leaves out comes after every edge it returns in the requested order
C24_PageIsFirstHundred ==
  last.op = "find_edges" /\ last.res = "ok"
    => /\ Len(last.found) <= 100
       /\ Range(last.found) \subseteq Passing
       /\ Len(last.found) = IF Cardinality(Passing) > 100 THEN 100
                            ELSE Cardinality(Passing)
       /\ \A e \in Passing \ Range(last.found) : \A i \in 1..Len(last.found) :
            IF last.query.order = "Asc"
            THEN EdgeLess(last.found[i], e)
            ELSE EdgeLess(e, last.found[i])

\* C25: every page of a walk is returned without error, the edges seen on the
\* pages so far are edges the query matches, each once and in the requested
\* order, and when the empty page comes every matching edge has been seen
C25_PagesVisitEachOnce ==
  last.op = "page"
    => /\ last.res = "ok"
       /\ Range(last.seen) \subseteq Named(last.id, last.query)
       /\ \A i \in 1..(Len(last.seen) - 1) :
            IF last.query.order = "Asc"
            THEN EdgeLess(last.seen[i], last.seen[i + 1])
            ELSE EdgeLess(last.seen[i + 1], last.seen[i])
       /\ (last.found = <<>> => Range(last.seen) = Named(last.id, last.query))

\* the other of the two backends
OtherBackend(b) == IF b = "heed" THEN "sqlite" ELSE "heed"

\* the store of backend b that holds what store st of the other backend
\* holds: the same entities, and each edge as b keeps it
Mirror(b, st) ==
  [ents |-> st.ents,
   edges |-> IF b = "heed"
             THEN {make_edge_key(e.source, e.sort_key, e.dest) :
                     e \in LiveEdges(OtherBackend(b), st)}
             ELSE {EdgeRow(e) : e \in LiveEdges(OtherBackend(b), st)}]

\* C26: from stores that hold the same entities and edges, a create_edge, a
\* delete or a find_edges has the same outcome on the other backend as on this
\* one (Ok or Err, the edges found) and leaves the two stores holding the same
BackendsAgreeOnStep ==
  LET o == OtherBackend(backend)
      st == Mirror(o, tx)
  IN  /\ last'.op = "create_edge"
           => \E r \in {create_edge(o, st, last'.edge)} :
                /\ (last'.res = "ok") = r.ok
                /\ r.st = Mirror(o, tx')
      /\ last'.op = "delete"
           => /\ (last'.res = "ok") = delete_ok(o, last'.id)
              /\ delete(o, st, last'.id) = Mirror(o, tx')
      /\ last'.op = "find_edges"
           => /\ (last'.res = "ok") = find_edges_ok(o, last'.id, last'.query)
              /\ last'.found = find_edges(o, st, last'.id, last'.query)

C26_BackendsAgree == [][BackendsAgreeOnStep]_vars

\* C27: the edges find_edges returned are, in the same order, the edges the
\* other backend returns for the same query over the same edge set
C27_SameEdgeList ==
  last.op = "find_edges"
    => last.found = find_edges(OtherBackend(backend),
                               Mirror(OtherBackend(backend), tx),
                               last.id, last.query)

\* C28: an update that returns true stores a version greater than the version
\* it replaced
C28_VersionAdvances ==
  [][(Called("update") /\ last'.res = "true")
       => get(backend, tx', last'.id).last_updated
            > get(backend, tx, last'.id).last_updated]_vars

\* C29: a create returns an id under which no entity is stored and under
\* which none was stored and deleted earlier in the transaction, and leaves
\* the records stored before as they are; an update leaves every entity under
\* the id it was stored under
C29_IdsUniqueAndStable ==
  [][/\ Called("create")
          => /\ last'.id \notin StoredIds(tx)
             /\ last'.id \notin deleted
             /\ \A i \in StoredIds(tx) : tx'.ents[i] = tx.ents[i]
     /\ Called("update")
          => /\ StoredIds(tx') = StoredIds(tx)
             /\ \A i \in StoredIds(tx) \ {last'.id} : tx'.ents[i] = tx.ents[i]]_vars

\* C30: the update of every round returns true, and a get after the round
\* returns the entity the round's update wrote.  The one update that returns
\* otherwise is the one whose edge check could not query the store: it
\* passes that error on
C30_EachRoundReturnsTrue ==
  (last.op = "update" /\ last.why # "check")
    => /\ last.res = "true"
       /\ get(backend, tx, last.id) = handles[last.h]

\* the call of this step returned an error
Failed == ops' = ops + 1 /\ last'.res = "err"

\* C31: a call that fails leaves in the transaction what earlier calls wrote
\* (every other entity record, every edge of another source) and what it wrote
\* itself before it failed (the record a create inserted, the entity an update
\* wrote before an edge insert failed); a commit then makes the transaction's
\* store the committed one, a drop discards it
C31_FailureKeepsWrites ==
  [][/\ Failed
          => /\ active'
             /\ db' = db
             /\ \A i \in StoredIds(tx) \ {last'.id} : tx'.ents[i] = tx.ents[i]
             /\ \A e \in LiveEdges(backend, tx) :
                  e.source # last'.id => e \in LiveEdges(backend, tx')
             /\ (last'.op = "create" => get(backend, tx', last'.id) = last'.ent)
             /\ (last'.why = "create_edge"
                   => get(backend, tx', last'.id) = handles'[last'.h])
     /\ (active /\ last'.op = "commit" => db' = tx)
     /\ (active /\ last'.op = "drop" => tx' = db /\ db' = db)]_vars

\* a create has failed in a transaction that had written an entity before, and
\* both the earlier entity and the record of the failed create are stored
C31_Witness ==
  /\ last.op = "create"
  /\ last.res = "err"
  /\ get(backend, tx, last.id) # None
  /\ \E i \in StoredIds(tx) \ {last.id} : db.ents[i] = None

\* C32: check() on a pair draft returns the edges of the first component's
\* check followed by those of the second's; when the first component's check
\* fails the error is returned and the second is not checked; two pair drafts
\* are equal exactly when their first components are equal and their second
\* components are equal
C32_PairDraft ==
  /\ pairs.stage = "checked"
       => LET e1 == check_leaf(pairs.d1.t1, pairs.f1)
              e2 == check_leaf(pairs.d1.t2, pairs.f2)
          IN  /\ (e1.ok /\ e2.ok) => pairs.r = Ok(e1.val \o e2.val)
              /\ ~e1.ok => (pairs.r = Err /\ pairs.checks = 1)
              /\ (e1.ok /\ ~e2.ok) => (pairs.r = Err /\ pairs.checks = 2)
  /\ pairs.stage \in {"compared", "checked"}
       => pairs.equal = (pairs.d1.t1 = pairs.d2.t1 /\ pairs.d1.t2 = pairs.d2.t2)

\* the first component's check has failed, the second component, which has
\* edges to give, was not checked, and the two pair drafts differ in the second
\* component alone
C32_Witness ==
  /\ pairs.stage = "checked"
  /\ pairs.d1.t1.kind = "UniqueEmailDraft"
  /\ ~pairs.f1
  /\ pairs.d1.t2.kind = "TagsEdgeDraft"
  /\ pairs.d1.t2.tag_ids # <<>>
  /\ pairs.r = Err
  /\ pairs.checks = 1
  /\ pairs.d1.t1 = pairs.d2.t1
  /\ ~pairs.equal

\* C33: a create or an update of an entity whose provider is NullEdgeProvider
\* leaves the edges of the store as they are
C33_NullProviderKeepsEdges ==
  [][(etype = "TestEntity" /\ (Called("create") \/ Called("update")))
       => /\ tx'.edges = tx.edges
          /\ last'.ins = 0
          /\ last'.dels = 0]_vars

\* an update of such an entity has returned true and changed the stored
\* entity while edges from and to its id are stored
C33_Witness ==
  /\ etype = "TestEntity"
  /\ last.op = "update"
  /\ last.res = "true"
  /\ get(backend, tx, last.id).value # 0
  /\ \E e \in LiveEdges(backend, tx) : e.source = last.id /\ e.dest = last.id

\* C34: a delete(id) leaves every other entity record and every edge with
\* another dest as it was and adds nothing; the edges from id to another id
\* stay and find_edges(id) returns them after the delete
C34_DeleteFrame ==
  [][Called("delete")
       => /\ \A i \in Ids \ {last'.id} : tx'.ents[i] = tx.ents[i]
          /\ LiveEdges(backend, tx')
               = {e \in LiveEdges(backend, tx) : e.dest # last'.id}
          /\ \A e \in LiveEdges(backend, tx) :
               (e.source = last'.id /\ e.dest # last'.id)
                 => \E q \in {EdgeQuery(<<>>, "Asc", None)} :
                      /\ find_edges_ok(backend, last'.id, q)
                      /\ Edge(e.source, e.sort_key, e.dest)
                           \in Range(find_edges(backend, tx', last'.id, q))]_vars

\* a stored entity has been deleted, an edge to it went with it, another
\* entity is still stored and an edge from the deleted id to it is live
C34_Witness ==
  /\ last.op = "delete"
  /\ last.ent # None
  /\ last.dels > 0
  /\ \E e \in LiveEdges(backend, tx) :
       /\ e.source = last.id
       /\ e.dest # last.id
       /\ get(backend, tx, e.dest) # None

\* the version stored for the entity of the run
StoredVersion == get(backend, tx, last.id).last_updated

\* C35: an update that returns false leaves the caller's entity with its
\* version advanced; an update through the same entity right after it, with
\* no read between, does not return true while the stored version is not that
\* version; an update through an entity just read with get does not return
\* false
C35_RetryNeedsReread ==
  [][Called("update")
       => /\ last'.res = "false"
               => handles'[last'.h].last_updated > handles[last'.h].last_updated
          /\ (/\ last.op = "update"
              /\ last.res = "false"
              /\ last'.h = last.h
              /\ StoredVersion # handles[last.h].last_updated)
               => last'.res # "true"
          /\ (last.op = "get" /\ last'.h = last.h) => last'.res # "false"]_vars

\* C36: after an update that returns true the caller's entity carries the
\* stored version, and an update through the same entity right after it, with
\* no read between, returns true
C36_SecondUpdateThroughHandle ==
  [][Called("update")
       => /\ last'.res = "true"
               => handles'[last'.h].last_updated
                    = get(backend, tx', last'.id).last_updated
          /\ (last.op = "update" /\ last.res = "true" /\ last'.h = last.h)
               => last'.res = "true"]_vars

\* the edges database after create_edge of each of the given triples in turn
RECURSIVE Put(_, _)
Put(st, triples) ==
  IF triples = <<>> THEN st
  ELSE Put(Heed_create_edge(st, triples[1]).st, Tail(triples))

\* C37: two different triples have different keys; so after create_edge of
\* both the database holds a key for each, and delete_edge of the one leaves
\* the key of the other
C37_KeyInjective ==
  codec.stage # "triples"
    => /\ (codec.k1 = codec.k2 => codec.t1 = codec.t2)
       /\ codec.t1 # codec.t2
            => \E both \in {Put(EmptyStore, <<codec.t1, codec.t2>>)} :
                 /\ both.edges = {codec.k1, codec.k2}
                 /\ Cardinality(both.edges) = 2
                 /\ Heed_delete_edge(both, codec.t2).edges = {codec.k1}

\* the keys of two triples that differ in the dest alone, by a multiple of 256
C37_Witness ==
  /\ codec.stage = "keys"
  /\ codec.t1 # codec.t2
  /\ codec.t1.source = codec.t2.source
  /\ codec.t1.sort_key = codec.t2.sort_key
  /\ codec.t1.dest = 0
  /\ codec.t2.dest = BigId

\* C38: an update whose drafts differ checks the drafts before it compares
\* the version: it returns false, or true, only after both checks succeeded,
\* and when a check fails it returns that error, stale or not
C38_ChecksBeforeVersion ==
  (last.op = "update" /\ last.differ)
    => /\ last.checks >= 1
       /\ last.res \in {"false", "true"} => (last.checks = 2 /\ last.why = "")
       /\ (last.checks < 2 \/ last.why = "check") => last.res = "err"

\* an update through a stale entity, with the stored version moved on, whose
\* draft fails its check has returned the error
C38_Witness ==
  /\ last.op = "update"
  /\ last.differ
  /\ last.stale
  /\ last.res = "err"
  /\ last.why = "check"
  /\ get(backend, tx, last.id).last_updated # 0

C40_FullRangeIds ==
  [][/\ (last'.op = "create_edge" /\ last'.edge \notin LiveEdges(backend, tx))
          => last'.res = "ok" /\ last'.edge \in LiveEdges(backend, tx')
     /\ (/\ last'.op = "find_edges"
         /\ last'.query.cursor = None
         /\ last'.query.edge_names = <<>>)
          => /\ last'.res = "ok"
             /\ Range(last'.found) = {e \in LiveEdges(backend, tx) : e.source = last'.id}
             /\ \A i \in 1..Len(last'.found) : \A j \in 1..Len(last'.found) :
                  (i < j /\ last'.found[i].sort_key = last'.found[j].sort_key)
                    => IF last'.query.order = "Asc"
                       THEN last'.found[i].dest < last'.found[j].dest
                       ELSE last'.found[i].dest > last'.found[j].dest]_vars

====
